---------------------------- MODULE Spec2Model ----------------------------
(***************************************************************************)
(* web2pdf (src/web2pdf.py): main() resolves the command line into the     *)
(* arguments of convert_to_pdf(), which drives one headless browser        *)
(* through launch, page set-up, navigation, element hiding, PDF rendering  *)
(* and close.                                                              *)
(*                                                                         *)
(* Strings are sequences of one-character strings, so that str.split and   *)
(* str.strip are computed character by character.  A dict is the sequence  *)
(* of its <<key, value>> items in insertion order.  An optional value is   *)
(* None (the empty tuple) or Some(v) (the one-element tuple).  The browser *)
(* engine is the environment: each of its calls either returns or raises.  *)
(* The arguments main hands through unread (url, output path, page         *)
(* geometry, viewport, timeout, proxy) decide nothing here and are left    *)
(* out.                                                                    *)
(***************************************************************************)
EXTENDS Naturals, Sequences, FiniteSets

\* Longest list of --header flags of one run.
MaxHeaders == 2
\* Number of runs made one after the other in the same interpreter.
MaxRuns == 2

None == << >>
Some(v) == << v >>
IsNone(o) == o = << >>
Val(o) == o[1]

(***************************************************************************)
(* The module-level constant default_headers and the command-line values   *)
(* the runs are started with.                                              *)
(***************************************************************************)
UA_NAME ==
    <<"U","s","e","r","-","A","g","e","n","t">>
UA_VALUE ==
    <<"M","o","z","i","l","l","a","/","5",".","0"," ","(","W","i","n","d","o","w","s",
      " ","N","T"," ","1","0",".","0",";"," ","W","i","n","6","4",";"," ","x","6","4",
      ")"," ","A","p","p","l","e","W","e","b","K","i","t","/","5","3","7",".","3","6",
      " ","(","K","H","T","M","L",","," ","l","i","k","e"," ","G","e","c","k","o",")",
      " ","C","h","r","o","m","e","/","9","1",".","0",".","4","4","7","2",".","1","2",
      "4"," ","S","a","f","a","r","i","/","5","3","7",".","3","6">>
AL_NAME ==
    <<"a","c","c","e","p","t","-","l","a","n","g","u","a","g","e">>
AL_VALUE ==
    <<"z","h","-","C","N",",","z","h",";","q","=","0",".","9",",","e","n",";","q","=",
      "0",".","8",",","z","h","-","T","W",";","q","=","0",".","7">>
\* --header "X-Test: 1"
HdrXTest ==
    <<"X","-","T","e","s","t",":"," ","1">>
\* --header "User-Agent: curl/8"   (collides with a default name)
HdrUserAgent ==
    <<"U","s","e","r","-","A","g","e","n","t",":"," ","c","u","r","l","/","8">>
\* --header "X-Test 1"   (no colon)
HdrNoColon ==
    <<"X","-","T","e","s","t"," ","1">>
\* --header " X-Test :a:b"   (padding, a second colon, the name of HdrXTest)
HdrSpaced ==
    <<" ","X","-","T","e","s","t"," ",":","a",":","b">>
\* --header "accept-language:en"   (collides with the other default)
HdrLang ==
    <<"a","c","c","e","p","t","-","l","a","n","g","u","a","g","e",":","e","n">>
\* -d "a,,b"
SelGap ==
    <<"a",",",",","b">>
\* -d ".ad, #x ,"
SelTrail ==
    <<".","a","d",","," ","#","x"," ",",">>
\* -d " "
SelBlank ==
    <<" ">>
\* -d ""
SelEmpty ==
    <<>>

DefaultHeaders == << <<UA_NAME, UA_VALUE>>, <<AL_NAME, AL_VALUE>> >>

HeaderArgs == {HdrXTest, HdrUserAgent, HdrNoColon, HdrSpaced, HdrLang}
SelectorArgs == {SelGap, SelTrail, SelBlank, SelEmpty}

RECURSIVE SeqsUpTo(_, _)
SeqsUpTo(S, n) ==
    IF n = 0 THEN {<< >>}
    ELSE LET shorter == SeqsUpTo(S, n - 1)
         IN  shorter \cup {Append(s, x) : s \in shorter, x \in S}

\* args.headers: None without --header, else the list of the flags' values.
HeaderLists == {None} \cup {Some(l) : l \in SeqsUpTo(HeaderArgs, MaxHeaders) \ {<< >>}}
\* args.hide_selectors: None without -d, else the flag's value.
SelectorFlags == {None} \cup {Some(s) : s \in SelectorArgs}

\* Arguments of a direct call of convert_to_pdf (no main in front of it).
ApiHeaders == {None, Some(<< >>), Some(<< <<UA_NAME, <<"x">> >> >>)}
\* The last list has entries padded with form feed, U+001F, U+000B and U+001C.
ApiSelectors ==
    {None, Some(<< >>),
     Some(<< <<" ", "#", "x">>, << >>, <<".", "a", "'">> >>),
     Some(<< <<"\f">>, <<"\f", "a", "">>, <<"", "">> >>)}

(***************************************************************************)
(* str and dict operations                                                 *)
(***************************************************************************)
\* The characters str.strip() removes (those for which str.isspace holds):
\* tab, line feed, U+000B, form feed, carriage return, U+001C to U+001F, the
\* space, U+0085 and U+00A0, each written as itself, and the Unicode spaces
\* beyond U+00FF, which a string of this language cannot hold and which are
\* named by their code point.
Whitespace ==
    {"\t", "\n", "", "\f", "\r", "", "", "", "", " ", "", " ",
     "U+1680", "U+2000", "U+2001", "U+2002", "U+2003", "U+2004", "U+2005", "U+2006", "U+2007",
     "U+2008", "U+2009", "U+200A", "U+2028", "U+2029", "U+202F", "U+205F", "U+3000"}

RECURSIVE LStrip(_)
LStrip(s) ==
    IF s # << >> /\ Head(s) \in Whitespace THEN LStrip(Tail(s)) ELSE s

RECURSIVE RStrip(_)
RStrip(s) ==
    IF s # << >> /\ s[Len(s)] \in Whitespace
    THEN RStrip(SubSeq(s, 1, Len(s) - 1))
    ELSE s

\* A strip that forgets the trailing blanks (str.lstrip).
StripLeft(s) == LStrip(s)

\* str.strip()
Strip(s) == RStrip(LStrip(s))

\* Index of the first c in s, 0 when there is none (str.find, 1-based).
Find(s, c) ==
    IF \E k \in 1..Len(s) : s[k] = c
    THEN CHOOSE k \in 1..Len(s) : s[k] = c /\ \A j \in 1..(k - 1) : s[j] # c
    ELSE 0

\* header.split(':', 1)
SplitOnce(s, c) ==
    LET k == Find(s, c)
    IN  IF k = 0 THEN << s >>
        ELSE << SubSeq(s, 1, k - 1), SubSeq(s, k + 1, Len(s)) >>

\* args.hide_selectors.split(',')
RECURSIVE Split(_, _)
Split(s, c) ==
    LET k == Find(s, c)
    IN  IF k = 0 THEN << s >>
        ELSE << SubSeq(s, 1, k - 1) >> \o Split(SubSeq(s, k + 1, Len(s)), c)

DictKeys(d) == {d[k][1] : k \in 1..Len(d)}

\* d[key] = value: an existing key keeps its place, a new one goes last.
DictSet(d, key, value) ==
    IF key \in DictKeys(d)
    THEN [k \in 1..Len(d) |-> IF d[k][1] = key THEN <<key, value>> ELSE d[k]]
    ELSE Append(d, <<key, value>>)

\* d.update(other)
RECURSIVE DictUpdate(_, _)
DictUpdate(d, other) ==
    IF other = << >> THEN d
    ELSE DictUpdate(DictSet(d, Head(other)[1], Head(other)[2]), Tail(other))

\* Truth value of an optional list, dict or str: None and empty are false.
Truthy(o) == ~IsNone(o) /\ Val(o) # << >>

(***************************************************************************)
(* main: resolution of the command line                                    *)
(***************************************************************************)
\* The loop body written with str.partition: a flag without a colon raises
\* nothing and becomes a key with an empty value.
AddHeaderPartition(acc, header) ==
    LET parts == SplitOnce(header, ":")
    IN  [dict |-> DictSet(acc.dict, Strip(parts[1]),
                          IF Len(parts) = 2 THEN Strip(parts[2]) ELSE << >>),
         out  |-> acc.out]

\* One pass of the loop over args.headers: acc is the dict built so far and
\* the lines printed so far.
AddHeader(acc, header) ==
    LET parts == SplitOnce(header, ":")
    IN  IF Len(parts) = 2
        THEN [dict |-> DictSet(acc.dict, Strip(parts[1]), Strip(parts[2])),
              out  |-> acc.out]
        ELSE [dict |-> acc.dict,
              out  |-> Append(acc.out, [kind |-> "warn_header", arg |-> header])]

RECURSIVE ParseHeaders(_, _)
ParseHeaders(acc, list) ==
    IF list = << >> THEN acc
    ELSE ParseHeaders(AddHeader(acc, Head(list)), Tail(list))

\* The merge with the user's headers on top of the defaults.
MergeDefaultsUserWins(ref, user, dflt) ==
    IF ref = "none" \/ user = << >>
    THEN [ref |-> "default", user |-> user, dflt |-> dflt]
    ELSE [ref |-> "user", user |-> DictUpdate(dflt, user), dflt |-> dflt]

\* The merge written as default_headers.update(headers).
MergeDefaultsIntoConstant(ref, user, dflt) ==
    IF ref = "none" \/ user = << >>
    THEN [ref |-> "default", user |-> user, dflt |-> dflt]
    ELSE [ref |-> "default", user |-> user, dflt |-> DictUpdate(dflt, user)]

\* "if not headers: headers = default_headers / else: headers.update(...)".
\* ref names the object the local variable headers is bound to, user and dflt
\* are the contents of the dict made by main and of default_headers.
MergeDefaults(ref, user, dflt) ==
    IF ref = "none" \/ user = << >>
    THEN [ref |-> "default", user |-> user, dflt |-> dflt]
    ELSE [ref |-> "user", user |-> DictUpdate(user, dflt), dflt |-> dflt]

\* hide_selectors = [s for s in args.hide_selectors.split(',')]
SplitSelectors(flag) ==
    IF Truthy(flag) THEN Some(Split(Val(flag), ",")) ELSE None

(***************************************************************************)
(* State                                                                   *)
(***************************************************************************)
VARIABLES
    mode,              \* "cli": main() runs; "api": convert_to_pdf called directly
    args_headers,      \* args.headers
    args_hide,         \* args.hide_selectors
    wait_for_network,  \* args.wait_for_network / the parameter
    hide_selectors,    \* the list handed to convert_to_pdf, or None
    headersRef,        \* what headers is bound to: "none", "user", "default"
    userDict,          \* the dict made at "headers = {}" (or by the api caller)
    default_headers,   \* the module-level dict
    pc,                \* the statement about to run
    idx,               \* position of the loop over hide_selectors
    calls,             \* browser calls made so far, each with its outcome
    evaluated,         \* page.evaluate calls: the selector and whether it raised
    gotoWaitUntil,     \* wait_until given to page.goto
    sentHeaders,       \* the mapping given to page.set_extra_http_headers
    failed,            \* the call whose exception left the with block, or ""
    result,            \* convert_to_pdf: "running", "returned", "raised"
    out,               \* lines printed
    pdfWritten,        \* page.pdf returned: the output file exists
    browser,           \* "none", "open", "closed"
    runs               \* runs started so far

vars ==
    <<mode, args_headers, args_hide, wait_for_network, hide_selectors, headersRef,
      userDict, default_headers, pc, idx, calls, evaluated, gotoWaitUntil,
      sentHeaders, failed, result, out, pdfWritten, browser, runs>>

\* The value of the local variable / parameter headers.
Headers ==
    IF headersRef = "none" THEN None
    ELSE IF headersRef = "default" THEN Some(default_headers)
    ELSE Some(userDict)

CliStart(hl, sf, w) ==
    [mode |-> "cli", args_headers |-> hl, args_hide |-> sf, wait |-> w,
     hide |-> None, ref |-> "none", user |-> << >>, pc |-> "selectors"]

ApiStart(h, hs, w) ==
    [mode |-> "api", args_headers |-> None, args_hide |-> None, wait |-> w,
     hide |-> hs, ref |-> IF IsNone(h) THEN "none" ELSE "user",
     user |-> IF IsNone(h) THEN << >> ELSE Val(h), pc |-> "enter"]

Starts ==
    {CliStart(hl, sf, w) : hl \in HeaderLists, sf \in SelectorFlags, w \in BOOLEAN}
    \cup {ApiStart(h, hs, w) : h \in ApiHeaders, hs \in ApiSelectors, w \in BOOLEAN}

\* The module has been imported: default_headers exists, nothing has been called.
Init ==
    /\ mode = "cli"
    /\ args_headers = None
    /\ args_hide = None
    /\ wait_for_network = TRUE
    /\ hide_selectors = None
    /\ headersRef = "none"
    /\ userDict = << >>
    /\ default_headers = DefaultHeaders
    /\ pc = "idle"
    /\ idx = 1
    /\ calls = << >>
    /\ evaluated = << >>
    /\ gotoWaitUntil = ""
    /\ sentHeaders = None
    /\ failed = ""
    /\ result = "running"
    /\ out = << >>
    /\ pdfWritten = FALSE
    /\ browser = "none"
    /\ runs = 0

inputVars == <<mode, args_headers, args_hide, wait_for_network>>
browserVars == <<calls, evaluated, gotoWaitUntil, sentHeaders, pdfWritten, browser>>

(***************************************************************************)
(* main, lines 139-161                                                     *)
(***************************************************************************)
\* main() is run with a command line (args = parser.parse_args()), or
\* convert_to_pdf is called with arguments.
Call ==
    /\ pc = "idle"
    /\ runs < MaxRuns
    /\ \E s \in Starts :
        /\ mode' = s.mode
        /\ args_headers' = s.args_headers
        /\ args_hide' = s.args_hide
        /\ wait_for_network' = s.wait
        /\ hide_selectors' = s.hide
        /\ headersRef' = s.ref
        /\ userDict' = s.user
        /\ pc' = s.pc
    /\ runs' = runs + 1
    /\ UNCHANGED <<browserVars, default_headers, idx, failed, result, out>>

ProcessSelectors ==
    /\ pc = "selectors"
    /\ hide_selectors' = SplitSelectors(args_hide)
    /\ pc' = "headers"
    /\ UNCHANGED <<inputVars, browserVars, headersRef, userDict, default_headers,
                   idx, failed, result, out, runs>>

ProcessHeaders ==
    /\ pc = "headers"
    /\ IF Truthy(args_headers)
       THEN LET r == ParseHeaders([dict |-> << >>, out |-> out], Val(args_headers))
            IN  /\ headersRef' = "user"
                /\ userDict' = r.dict
                /\ out' = r.out
       ELSE UNCHANGED <<headersRef, userDict, out>>
    /\ pc' = "merge"
    /\ UNCHANGED <<inputVars, browserVars, hide_selectors, default_headers, idx,
                   failed, result, runs>>

MergeHeaders ==
    /\ pc = "merge"
    /\ LET m == MergeDefaults(headersRef, userDict, default_headers)
       IN  /\ headersRef' = m.ref
           /\ userDict' = m.user
           /\ default_headers' = m.dflt
    /\ pc' = "enter"
    /\ UNCHANGED <<inputVars, browserVars, hide_selectors, idx, failed, result,
                   out, runs>>

(***************************************************************************)
(* convert_to_pdf, lines 53-110                                            *)
(***************************************************************************)
\* The with block with the PDF rendered before the elements are hidden.
ThenPdfFirst(stmt) ==
    CASE stmt = "sync_playwright"        -> "launch"
      [] stmt = "launch"                 -> "new_page"
      [] stmt = "new_page"               -> "set_extra_http_headers"
      [] stmt = "set_extra_http_headers" -> "emulate_media"
      [] stmt = "emulate_media"          -> "goto"
      [] stmt = "goto"                   -> "wait_for_load_state"
      [] stmt = "wait_for_load_state"    -> "pdf"
      [] stmt = "pdf"                    -> "hide"
      [] stmt = "hide"                   -> "close"
      [] stmt = "close"                  -> "exit"

\* The statement that follows each statement of the with block.
Then(stmt) ==
    CASE stmt = "sync_playwright"        -> "launch"
      [] stmt = "launch"                 -> "new_page"
      [] stmt = "new_page"               -> "set_extra_http_headers"
      [] stmt = "set_extra_http_headers" -> "emulate_media"
      [] stmt = "emulate_media"          -> "goto"
      [] stmt = "goto"                   -> "wait_for_load_state"
      [] stmt = "wait_for_load_state"    -> "hide"
      [] stmt = "hide"                   -> "pdf"
      [] stmt = "pdf"                    -> "close"
      [] stmt = "close"                  -> "exit"

\* Every call wrapped in a try that swallows the exception.
AfterCallSwallowed(stmt, ok) == [pc |-> Then(stmt), failed |-> ""]

\* The with block with browser.close() in a finally.
AfterCallCloseAnyway(stmt, ok) ==
    IF ok THEN [pc |-> Then(stmt), failed |-> ""]
    ELSE [pc |-> IF stmt = "close" THEN "exit" ELSE "close", failed |-> stmt]

\* Where control goes after a call outside any try: on to the next statement,
\* or out of the with block with the exception.
AfterCall(stmt, ok) ==
    IF ok THEN [pc |-> Then(stmt), failed |-> ""]
    ELSE [pc |-> "exit", failed |-> stmt]

\* page.evaluate without the try: its exception leaves the with block.
AfterEvaluateUncaught(selector, ok, printed) ==
    IF ok THEN [pc |-> "hide", failed |-> "", out |-> printed]
    ELSE [pc |-> "exit", failed |-> "evaluate", out |-> printed]

\* Where control goes after page.evaluate, inside try/except Exception: back to
\* the loop, with a warning printed when it raised.
AfterEvaluate(selector, ok, printed) ==
    IF ok THEN [pc |-> "hide", failed |-> "", out |-> printed]
    ELSE [pc |-> "hide", failed |-> "",
          out |-> Append(printed, [kind |-> "warn_hide", arg |-> selector])]

\* page.goto that always waits for the load event only.
WaitUntilLoad(w) == "load"

\* wait_until of page.goto.
WaitUntil(w) == IF w THEN "networkidle" ELSE "load"

Called(stmt, ok) == calls' = Append(calls, [op |-> stmt, ok |-> ok])

\* "with sync_playwright() as p": a failure to start leaves convert_to_pdf
\* before the block is entered.
EnterPlaywright ==
    /\ pc = "enter"
    /\ \E ok \in BOOLEAN :
        IF ok
        THEN /\ pc' = Then("sync_playwright")
             /\ UNCHANGED <<failed, result>>
        ELSE /\ failed' = "sync_playwright"
             /\ result' = "raised"
             /\ pc' = IF mode = "cli" THEN "report" ELSE "done"
    /\ UNCHANGED <<inputVars, browserVars, hide_selectors, headersRef, userDict,
                   default_headers, idx, out, runs>>

Launch ==
    /\ pc = "launch"
    /\ \E ok \in BOOLEAN :
        /\ Called("launch", ok)
        /\ browser' = IF ok THEN "open" ELSE browser
        /\ pc' = AfterCall("launch", ok).pc
        /\ failed' = AfterCall("launch", ok).failed
    /\ UNCHANGED <<inputVars, evaluated, gotoWaitUntil, sentHeaders, pdfWritten,
                   hide_selectors, headersRef, userDict, default_headers, idx,
                   result, out, runs>>

NewPage ==
    /\ pc = "new_page"
    /\ \E ok \in BOOLEAN :
        /\ Called("new_page", ok)
        /\ pc' = AfterCall("new_page", ok).pc
        /\ failed' = AfterCall("new_page", ok).failed
    /\ UNCHANGED <<inputVars, evaluated, gotoWaitUntil, sentHeaders, pdfWritten,
                   browser, hide_selectors, headersRef, userDict, default_headers,
                   idx, result, out, runs>>

\* "if headers: page.set_extra_http_headers(headers)": the mapping is read.
SetHeaders ==
    /\ pc = "set_extra_http_headers"
    /\ Truthy(Headers)
    /\ \E ok \in BOOLEAN :
        /\ Called("set_extra_http_headers", ok)
        /\ sentHeaders' = Headers
        /\ pc' = AfterCall("set_extra_http_headers", ok).pc
        /\ failed' = AfterCall("set_extra_http_headers", ok).failed
    /\ UNCHANGED <<inputVars, evaluated, gotoWaitUntil, pdfWritten, browser,
                   hide_selectors, headersRef, userDict, default_headers, idx,
                   result, out, runs>>

NoHeaders ==
    /\ pc = "set_extra_http_headers"
    /\ ~Truthy(Headers)
    /\ pc' = Then("set_extra_http_headers")
    /\ UNCHANGED <<inputVars, browserVars, hide_selectors, headersRef, userDict,
                   default_headers, idx, failed, result, out, runs>>

EmulateMedia ==
    /\ pc = "emulate_media"
    /\ \E ok \in BOOLEAN :
        /\ Called("emulate_media", ok)
        /\ pc' = AfterCall("emulate_media", ok).pc
        /\ failed' = AfterCall("emulate_media", ok).failed
    /\ UNCHANGED <<inputVars, evaluated, gotoWaitUntil, sentHeaders, pdfWritten,
                   browser, hide_selectors, headersRef, userDict, default_headers,
                   idx, result, out, runs>>

\* page.goto raises when the URL cannot be reached or the wait runs out of time.
Goto ==
    /\ pc = "goto"
    /\ \E ok \in BOOLEAN :
        /\ Called("goto", ok)
        /\ gotoWaitUntil' = WaitUntil(wait_for_network)
        /\ pc' = AfterCall("goto", ok).pc
        /\ failed' = AfterCall("goto", ok).failed
    /\ UNCHANGED <<inputVars, evaluated, sentHeaders, pdfWritten, browser,
                   hide_selectors, headersRef, userDict, default_headers, idx,
                   result, out, runs>>

\* page.wait_for_load_state('networkidle')
WaitForLoadState ==
    /\ pc = "wait_for_load_state"
    /\ \E ok \in BOOLEAN :
        /\ Called("wait_for_load_state", ok)
        /\ pc' = AfterCall("wait_for_load_state", ok).pc
        /\ failed' = AfterCall("wait_for_load_state", ok).failed
    /\ UNCHANGED <<inputVars, evaluated, gotoWaitUntil, sentHeaders, pdfWritten,
                   browser, hide_selectors, headersRef, userDict, default_headers,
                   idx, result, out, runs>>

\* The loop over hide_selectors still has an entry to look at.
InLoop == Truthy(hide_selectors) /\ idx <= Len(Val(hide_selectors))

\* "selector = selector.strip(); if not selector: continue"
HideSkip ==
    /\ pc = "hide"
    /\ InLoop
    /\ Strip(Val(hide_selectors)[idx]) = << >>
    /\ idx' = idx + 1
    /\ UNCHANGED <<inputVars, browserVars, hide_selectors, headersRef, userDict,
                   default_headers, pc, failed, result, out, runs>>

\* "try: page.evaluate(...) except Exception as e: print(Warning ...)"
HideEvaluate ==
    /\ pc = "hide"
    /\ InLoop
    /\ LET selector == Strip(Val(hide_selectors)[idx])
       IN  /\ selector # << >>
           /\ \E ok \in BOOLEAN :
               LET after == AfterEvaluate(selector, ok, out)
               IN  /\ Called("evaluate", ok)
                   /\ evaluated' =
                          Append(evaluated, [selector |-> selector, raised |-> ~ok])
                   /\ pc' = after.pc
                   /\ failed' = after.failed
                   /\ out' = after.out
    /\ idx' = idx + 1
    /\ UNCHANGED <<inputVars, gotoWaitUntil, sentHeaders, pdfWritten, browser,
                   hide_selectors, headersRef, userDict, default_headers, result,
                   runs>>

\* "if hide_selectors:" is false, or the loop has run out.
HideDone ==
    /\ pc = "hide"
    /\ ~InLoop
    /\ pc' = Then("hide")
    /\ UNCHANGED <<inputVars, browserVars, hide_selectors, headersRef, userDict,
                   default_headers, idx, failed, result, out, runs>>

Pdf ==
    /\ pc = "pdf"
    /\ \E ok \in BOOLEAN :
        /\ Called("pdf", ok)
        /\ pdfWritten' = ok
        /\ pc' = AfterCall("pdf", ok).pc
        /\ failed' = AfterCall("pdf", ok).failed
    /\ UNCHANGED <<inputVars, evaluated, gotoWaitUntil, sentHeaders, browser,
                   hide_selectors, headersRef, userDict, default_headers, idx,
                   result, out, runs>>

Close ==
    /\ pc = "close"
    /\ \E ok \in BOOLEAN :
        /\ Called("close", ok)
        /\ browser' = IF ok THEN "closed" ELSE browser
        /\ pc' = AfterCall("close", ok).pc
        /\ failed' = AfterCall("close", ok).failed
    /\ UNCHANGED <<inputVars, evaluated, gotoWaitUntil, sentHeaders, pdfWritten,
                   hide_selectors, headersRef, userDict, default_headers, idx,
                   result, out, runs>>

\* The with block is left, normally or by an exception, which goes on to the
\* caller: convert_to_pdf has no except and no finally of its own.
ExitPlaywright ==
    /\ pc = "exit"
    /\ result' = IF failed = "" THEN "returned" ELSE "raised"
    /\ pc' = IF mode = "cli" THEN "report" ELSE "done"
    /\ UNCHANGED <<inputVars, browserVars, hide_selectors, headersRef, userDict,
                   default_headers, idx, failed, out, runs>>

(***************************************************************************)
(* main, lines 163-186                                                     *)
(***************************************************************************)
\* The success line printed whatever the call did.
OutcomeAlwaysSuccess(res, why) == [kind |-> "success", arg |-> << >>]

\* The line main prints after the call: the print that follows the call in the
\* try, or the one of "except Exception as e".
Outcome(res, why) ==
    IF res = "returned" THEN [kind |-> "success", arg |-> << >>]
    ELSE [kind |-> "error", arg |-> << why >>]

Report ==
    /\ pc = "report"
    /\ out' = Append(out, Outcome(result, failed))
    /\ pc' = "done"
    /\ UNCHANGED <<inputVars, browserVars, hide_selectors, headersRef, userDict,
                   default_headers, idx, failed, result, runs>>

\* The call is over and its locals are gone; of what a run touched, only the
\* module-level default_headers stays for the next run in the same interpreter.
Finish ==
    /\ pc = "done"
    /\ mode' = "cli"
    /\ args_headers' = None
    /\ args_hide' = None
    /\ wait_for_network' = TRUE
    /\ hide_selectors' = None
    /\ headersRef' = "none"
    /\ userDict' = << >>
    /\ pc' = "idle"
    /\ idx' = 1
    /\ calls' = << >>
    /\ evaluated' = << >>
    /\ gotoWaitUntil' = ""
    /\ sentHeaders' = None
    /\ failed' = ""
    /\ result' = "running"
    /\ out' = << >>
    /\ pdfWritten' = FALSE
    /\ browser' = "none"
    /\ UNCHANGED <<default_headers, runs>>

Next ==
    \/ Call
    \/ ProcessSelectors
    \/ ProcessHeaders
    \/ MergeHeaders
    \/ EnterPlaywright
    \/ Launch
    \/ NewPage
    \/ SetHeaders
    \/ NoHeaders
    \/ EmulateMedia
    \/ Goto
    \/ WaitForLoadState
    \/ HideSkip
    \/ HideEvaluate
    \/ HideDone
    \/ Pdf
    \/ Close
    \/ ExitPlaywright
    \/ Report
    \/ Finish

Spec == Init /\ [][Next]_vars

(***************************************************************************)
(* What the properties below are stated with.  None of it is used by the   *)
(* actions above.                                                          *)
(***************************************************************************)
Started == pc # "idle"
Cli == mode = "cli" /\ Started
\* main has bound headers for the call (line 161 is behind it).
Merged == Cli /\ pc \notin {"selectors", "headers", "merge"}

WasCalled(op) == \E k \in 1..Len(calls) : calls[k].op = op
Returned(op) == \E k \in 1..Len(calls) : calls[k].op = op /\ calls[k].ok
Raised(op) == \E k \in 1..Len(calls) : calls[k].op = op /\ ~calls[k].ok

Lines(kind) == SelectSeq(out, LAMBDA l : l.kind = kind)

\* The blank characters of Python: str.isspace.
Blank ==
    {"\t", "\n", "", "\f", "\r", "", "", "", "", " ", "", " ",
     "U+1680", "U+2000", "U+2001", "U+2002", "U+2003", "U+2004", "U+2005", "U+2006", "U+2007",
     "U+2008", "U+2009", "U+200A", "U+2028", "U+2029", "U+202F", "U+205F", "U+3000"}

\* A string without its leading and trailing blanks, read off the positions of
\* its first and last non-blank character.
Trimmed(s) ==
    LET solid == {k \in 1..Len(s) : s[k] \notin Blank}
    IN  IF solid = {} THEN << >>
        ELSE SubSeq(s, CHOOSE k \in solid : \A j \in solid : k <= j,
                       CHOOSE k \in solid : \A j \in solid : j <= k)

HasColon(h) == \E k \in 1..Len(h) : h[k] = ":"
ColonAt(h) == CHOOSE k \in 1..Len(h) : h[k] = ":" /\ \A j \in 1..(k - 1) : h[j] # ":"
NameOf(h) == Trimmed(SubSeq(h, 1, ColonAt(h) - 1))
ValueOf(h) == Trimmed(SubSeq(h, ColonAt(h) + 1, Len(h)))

\* The --header flags of the run, in order.
Flags == IF IsNone(args_headers) THEN << >> ELSE Val(args_headers)
WellFormed == {k \in 1..Len(Flags) : HasColon(Flags[k])}
DefaultNames == {UA_NAME, AL_NAME}
\* The last well-formed flag with the name of flag k.
LastOfName(k) ==
    CHOOSE j \in WellFormed :
        /\ NameOf(Flags[j]) = NameOf(Flags[k])
        /\ \A i \in WellFormed : NameOf(Flags[i]) = NameOf(Flags[k]) => i <= j

\* The mapping main hands to convert_to_pdf.
Passed == Val(Headers)
Has(d, name, value) == \E k \in 1..Len(d) : d[k] = <<name, value>>

(***************************************************************************)
(* C3, C4, C10: the header mapping                                         *)
(***************************************************************************)
\* C3 (as stated): the mapping main passes to convert_to_pdf holds both default
\* headers with their default values, each once, and holds every well-formed
\* --header flag whose name is not a default name, with that flag's value.
C3_AsStated ==
    Merged =>
        /\ Has(Passed, UA_NAME, UA_VALUE)
        /\ Has(Passed, AL_NAME, AL_VALUE)
        /\ \A n \in DefaultNames :
               Cardinality({k \in 1..Len(Passed) : Passed[k][1] = n}) = 1
        /\ \A k \in WellFormed :
               NameOf(Flags[k]) \notin DefaultNames
                   => Has(Passed, NameOf(Flags[k]), ValueOf(Flags[k]))

\* C3 (as amended): the mapping main passes to convert_to_pdf holds both default
\* headers with their default values, each once (a flag with a default's name
\* loses its value), and for every well-formed flag whose name is not a
\* default name it holds that name with the value of the last flag of that
\* name.
C3_DefaultsWin ==
    Merged =>
        /\ Has(Passed, UA_NAME, UA_VALUE)
        /\ Has(Passed, AL_NAME, AL_VALUE)
        /\ \A n \in DefaultNames :
               Cardinality({k \in 1..Len(Passed) : Passed[k][1] = n}) = 1
        /\ \A k \in WellFormed :
               NameOf(Flags[k]) \notin DefaultNames
                   => Has(Passed, NameOf(Flags[k]), ValueOf(Flags[LastOfName(k)]))

\* A call that got a mapping made from a flag with a default's name and a flag
\* with a name of its own.
C3_Witness ==
    /\ Merged
    /\ WasCalled("set_extra_http_headers")
    /\ sentHeaders = Headers
    /\ \E k \in WellFormed : NameOf(Flags[k]) = UA_NAME
    /\ \E k \in WellFormed : NameOf(Flags[k]) \notin DefaultNames

\* The flags without a colon, in order.
Malformed == SelectSeq(Flags, LAMBDA h : ~HasColon(h))

\* C4: every --header flag without a colon gives one warning and no key; the
\* other flags are parsed, name and value cut at the first colon and trimmed;
\* the run goes on to the conversion; with no well-formed flag the mapping is
\* exactly the defaults.
C4_MalformedSkipped ==
    /\ (Cli /\ pc \notin {"selectors", "headers"}) =>
           Lines("warn_header") =
               [k \in 1..Len(Malformed) |-> [kind |-> "warn_header", arg |-> Malformed[k]]]
    /\ (Cli /\ pc = "merge" /\ Flags # << >>) =>
           /\ DictKeys(userDict) = {NameOf(Flags[k]) : k \in WellFormed}
           /\ \A k \in WellFormed :
                  Has(userDict, NameOf(Flags[k]), ValueOf(Flags[LastOfName(k)]))
    /\ Merged =>
           /\ DictKeys(Passed) = DefaultNames \cup {NameOf(Flags[k]) : k \in WellFormed}
           /\ WellFormed = {} => Passed = DefaultHeaders
    /\ (Cli /\ pc = "done") => WasCalled("launch") \/ failed = "sync_playwright"

\* A run given only flags without a colon, which converted the page.
C4_Witness ==
    /\ Cli
    /\ pc = "done"
    /\ Len(Flags) >= 2
    /\ WellFormed = {}
    /\ Len(Lines("warn_header")) = Len(Flags)
    /\ sentHeaders = Some(DefaultHeaders)
    /\ result = "returned"

\* C10: default_headers always holds its two original entries; headers is
\* bound to the constant itself exactly when no flag gave a usable header, and
\* to the mapping main made (the one the merge writes) otherwise.
C10_DefaultsUntouched ==
    /\ default_headers = DefaultHeaders
    /\ Merged => (headersRef = "default" <=> WellFormed = {})
    /\ Merged => (headersRef = "user" <=> WellFormed # {})
    /\ (Started /\ mode = "api") => headersRef # "default"

\* A later run whose merge wrote the defaults into the user's mapping.
C10_Witness ==
    /\ runs >= 2
    /\ Merged
    /\ pc = "done"
    /\ headersRef = "user"
    /\ WellFormed # {}
    /\ Has(userDict, UA_NAME, UA_VALUE)
    /\ WasCalled("set_extra_http_headers")

(***************************************************************************)
(* C1, C9: element hiding                                                  *)
(***************************************************************************)
\* The pieces of a -d value between its commas, read off the comma positions.
CommaPos(s) == {k \in 1..Len(s) : s[k] = ","}
Cut(s, n) ==
    IF n = 0 THEN 0
    ELSE IF n > Cardinality(CommaPos(s)) THEN Len(s) + 1
    ELSE CHOOSE k \in CommaPos(s) : Cardinality({j \in CommaPos(s) : j < k}) = n - 1
Pieces(s) ==
    [n \in 1..(Cardinality(CommaPos(s)) + 1) |->
        SubSeq(s, Cut(s, n - 1) + 1, Cut(s, n) - 1)]

\* The selector list of the run: from the -d flag, or as the api caller gave it.
Given ==
    IF mode = "cli"
    THEN IF IsNone(args_hide) \/ Val(args_hide) = << >> THEN << >>
         ELSE Pieces(Val(args_hide))
    ELSE IF IsNone(hide_selectors) THEN << >> ELSE Val(hide_selectors)

\* Its entries trimmed, the empty ones dropped.
Expected ==
    SelectSeq([k \in 1..Len(Given) |-> Trimmed(Given[k])], LAMBDA s : s # << >>)

\* The hiding step has been reached and left.
HideOver == Returned("wait_for_load_state") /\ pc # "hide"

RaisedEvaluations == SelectSeq(evaluated, LAMBDA e : e.raised)

\* C1: every page.evaluate that raises is answered by one warning and nothing
\* else: the loop goes on, all remaining non-empty selectors are evaluated, and
\* the PDF render and then the browser close are reached.
C1_HideFailuresTolerated ==
    /\ Lines("warn_hide") =
           [k \in 1..Len(RaisedEvaluations) |->
               [kind |-> "warn_hide", arg |-> RaisedEvaluations[k].selector]]
    /\ failed # "evaluate"
    /\ (calls # << >> /\ calls[Len(calls)].op = "evaluate") => pc \in {"hide", "pdf"}
    /\ HideOver => /\ Len(evaluated) = Len(Expected)
                   /\ pc = "pdf" \/ WasCalled("pdf")
    /\ Returned("pdf") => pc = "close" \/ WasCalled("close")

\* A finished conversion in which a selector failed and a later one was hidden.
C1_Witness ==
    /\ pc = "done"
    /\ result = "returned"
    /\ Returned("close")
    /\ \E j, k \in 1..Len(evaluated) :
           j < k /\ evaluated[j].raised /\ ~evaluated[k].raised

\* C9: the selectors evaluated are, in order, the entries of the list trimmed
\* with the empty ones left out, one evaluation each; an empty or blank entry
\* gives no evaluation and no warning; without selectors nothing is evaluated.
C9_EvaluatedSelectors ==
    /\ (Cli /\ pc # "selectors" /\ Given # << >>) => hide_selectors = Some(Given)
    /\ LET expected == Expected
       IN  /\ Len(evaluated) <= Len(expected)
           /\ \A k \in 1..Len(evaluated) : evaluated[k].selector = expected[k]
           /\ HideOver => Len(evaluated) = Len(expected)
    /\ Cardinality({k \in 1..Len(calls) : calls[k].op = "evaluate"}) = Len(evaluated)
    /\ Len(Lines("warn_hide")) <= Len(evaluated)
    /\ \A k \in 1..Len(out) : out[k].kind = "warn_hide" => out[k].arg # << >>

\* The hiding step done for -d ".ad, #x ,": two evaluations, the blank third
\* entry passed over.
C9_Witness ==
    /\ Cli
    /\ args_hide = Some(SelTrail)
    /\ HideOver
    /\ Len(Given) = 3
    /\ Len(evaluated) = 2
    /\ evaluated[2].selector = <<"#", "x">>

(***************************************************************************)
(* C2, C5, C6, C8: the order of the browser calls and their failures       *)
(***************************************************************************)
\* C2: when page.goto or the wait for network idle raises, page.pdf is never
\* called, no file is written, no success line is printed, and the run of main
\* ends with the error line.
C2_NavigationFailure ==
    (Raised("goto") \/ Raised("wait_for_load_state")) =>
        /\ ~WasCalled("pdf")
        /\ ~pdfWritten
        /\ Lines("success") = << >>
        /\ (Cli /\ pc = "done") =>
               /\ Len(Lines("error")) = 1
               /\ out[Len(out)].kind = "error"

\* A run of main ended after the wait for network idle timed out.
C2_Witness ==
    /\ Cli
    /\ pc = "done"
    /\ Raised("wait_for_load_state")
    /\ Len(Lines("error")) = 1

Rank(op) ==
    CASE op = "launch"                 -> 1
      [] op = "new_page"               -> 2
      [] op = "set_extra_http_headers" -> 3
      [] op = "emulate_media"          -> 4
      [] op = "goto"                   -> 5
      [] op = "wait_for_load_state"    -> 6
      [] op = "evaluate"               -> 7
      [] op = "pdf"                    -> 8
      [] op = "close"                  -> 9

\* The calls every conversion makes; those of headers and of element hiding
\* depend on the arguments.
Mandatory ==
    {"launch", "new_page", "emulate_media", "goto", "wait_for_load_state", "pdf", "close"}

\* C5: the browser calls are made in the order launch, new_page,
\* set_extra_http_headers, emulate_media, goto, wait_for_load_state, evaluate
\* (once per selector), pdf, close, each at most once, each after all earlier
\* ones have come back; pdf only after goto and the wait returned and every
\* selector was processed; close only after pdf returned.
C5_CallOrder ==
    /\ \A j, k \in 1..Len(calls) :
           j < k => \/ Rank(calls[j].op) < Rank(calls[k].op)
                    \/ calls[j].op = "evaluate" /\ calls[k].op = "evaluate"
    /\ \A k \in 1..Len(calls) :
           /\ k < Len(calls) => calls[k].ok \/ calls[k].op = "evaluate"
           /\ \A op \in Mandatory : Rank(op) < Rank(calls[k].op) => Returned(op)
    /\ WasCalled("emulate_media") =>
           (WasCalled("set_extra_http_headers") <=> Truthy(Headers))
    /\ WasCalled("pdf") =>
           /\ Returned("goto")
           /\ Returned("wait_for_load_state")
           /\ Len(evaluated) = Len(Expected)
    /\ WasCalled("close") => Returned("pdf") /\ pdfWritten

\* A conversion that made every call, two of them evaluations.
C5_Witness ==
    /\ Returned("close")
    /\ WasCalled("set_extra_http_headers")
    /\ Len(evaluated) >= 2
    /\ Len(calls) = 8 + Len(evaluated)

Uncaught ==
    {"launch", "new_page", "set_extra_http_headers", "emulate_media", "goto",
     "wait_for_load_state", "pdf", "close"}

\* C6: an exception of launch, page set-up, goto, the wait, pdf or close leaves
\* convert_to_pdf for its caller: no call follows the one that raised,
\* convert_to_pdf does not return normally, and unless it was close itself
\* that raised, browser.close() is not called.
C6_ExceptionsPropagate ==
    \A op \in Uncaught :
        Raised(op) =>
            /\ calls[Len(calls)].op = op
            /\ failed = op
            /\ pc \in {"exit", "report", "done"}
            /\ result # "returned"
            /\ pc \in {"report", "done"} => result = "raised"
            /\ op # "close" => ~WasCalled("close") /\ browser # "closed"

\* A direct call that ended with the exception of page.pdf, the browser open.
C6_Witness ==
    /\ mode = "api"
    /\ pc = "done"
    /\ Raised("pdf")
    /\ result = "raised"
    /\ browser = "open"

\* C8: page.goto waits for "networkidle" when wait_for_network is set and for
\* "load" otherwise; the call after it is the wait for network idle, whatever
\* the flag; element hiding and the PDF render come only after that wait
\* returned, and the conversion fails when it raises.
C8_NetworkIdleWait ==
    /\ WasCalled("goto") =>
           gotoWaitUntil = IF wait_for_network THEN "networkidle" ELSE "load"
    /\ \A k \in 1..Len(calls) :
           (calls[k].op = "goto" /\ calls[k].ok) =>
               IF k < Len(calls) THEN calls[k + 1].op = "wait_for_load_state"
               ELSE pc = "wait_for_load_state"
    /\ (pc \in {"hide", "pdf", "close"} \/ WasCalled("evaluate") \/ WasCalled("pdf"))
           => Returned("wait_for_load_state")
    /\ Raised("wait_for_load_state") =>
           /\ failed = "wait_for_load_state"
           /\ result # "returned"
           /\ ~WasCalled("evaluate")
           /\ ~WasCalled("pdf")

\* A conversion without wait_for_network that hid an element and rendered.
C8_Witness ==
    /\ Started
    /\ ~wait_for_network
    /\ gotoWaitUntil = "load"
    /\ Returned("wait_for_load_state")
    /\ WasCalled("evaluate")
    /\ Returned("pdf")

(***************************************************************************)
(* C7: the outcome line of main                                            *)
(***************************************************************************)
Outcomes == Len(Lines("success")) + Len(Lines("error"))

\* C7: a run of main prints no outcome line before its end and exactly one at
\* its end, the success line exactly when convert_to_pdf returned (browser
\* close included) and the error line otherwise; once convert_to_pdf is over,
\* by return or by exception, main is at that print and can make it.
C7_OneOutcomeLine ==
    Cli =>
        /\ Outcomes = IF pc = "done" THEN 1 ELSE 0
        /\ pc = "done" =>
               /\ out[Len(out)].kind \in {"success", "error"}
               /\ Lines("success") # << >> <=> result = "returned"
               /\ result = "returned" <=> Returned("close")
               /\ result \in {"returned", "raised"}
        /\ result # "running" => pc \in {"report", "done"}
        /\ pc = "report" => ENABLED Report

\* A run of main that wrote the PDF and still ended with the error line,
\* because browser.close() raised.
C7_Witness ==
    /\ Cli
    /\ pc = "done"
    /\ pdfWritten
    /\ Raised("close")
    /\ Lines("error") # << >>
    /\ Lines("success") = << >>
====
